---- MODULE Spec2Model ----
(***************************************************************************)
(* A model of go-git-http: the request dispatcher (routing.go), the        *)
(* repository resolver and access policy (git-http.go), the RPC proxy      *)
(* between an HTTP request and the git subprocess, and the extraction of   *)
(* push / tag / fetch events from the RPC payload.                         *)
(*                                                                         *)
(* Strings are TLA+ strings; a byte is a string of length 1.               *)
(***************************************************************************)
EXTENDS Integers, Sequences, FiniteSets, TLC

VARIABLES
    UploadPack,     \* GitHttp.UploadPack
    ReceivePack,    \* GitHttp.ReceivePack
    impl,           \* which serviceRpc of the sources runs: "buffered" | "reader"
    req,            \* the http.Request being served, or NoReq
    pc,             \* position of the handler goroutine
    svc,            \* result of getService: [re, repo], or NoSvc
    hr,             \* HandlerReq handed to the handler: [Rpc, Dir, File], or NoHr
    handler,        \* name of the Service.Handler that was called, "" if none
    w,              \* the http.ResponseWriter: sequence of calls made on it
    events,         \* events handed to GitHttp.event, in order
    execs,          \* argument lists of the git commands run, in order
    input,          \* the request payload as read by serviceRpc
    cmd,            \* exec.Cmd of serviceRpc
    pipes,          \* the subprocess, its stdin and stdout pipes
    pkt,            \* a packet line operation: [op, str, out]
    logged,         \* the failures of git commands handed to log.Print, in order
    clock,          \* time.Now().Unix()
    prev,           \* an earlier request and its response: [req, w], or NoPrev
    auth            \* the Authenticator around the server: the Authorization
                    \* header, what it was parsed to, the AuthInfo, what authf
                    \* returned, and whether the wrapped handler was invoked

vars == <<UploadPack, ReceivePack, impl, req, pc, svc, hr, handler, w, events,
          execs, input, cmd, pipes, pkt, logged, clock, prev, auth>>

-----------------------------------------------------------------------------
(* Bounds of the model                                                     *)

\* capacity in bytes of an OS pipe between the server and the subprocess
PipeCap == 64

\* largest number of bytes the subprocess writes to its stdout beyond PipeCap
MaxExtraOut == 1

\* every string up to this length is given to packetWrite
MaxShortLen == 60

\* number of seconds the clock advances
MaxTicks == 1

-----------------------------------------------------------------------------
(* Strings                                                                 *)

Smaller(a, b) == IF a < b THEN a ELSE b

\* the bytes of s at the positions i..j that s has
Sub(s, i, j) ==
    LET a == IF i < 1 THEN 1 ELSE i
        b == Smaller(j, Len(s))
    IN  IF a > b THEN "" ELSE SubSeq(s, a, b)

At(s, i) == Sub(s, i, i)

Min(S) == CHOOSE x \in S : \A y \in S : x <= y

Max(S) == CHOOSE x \in S : \A y \in S : x >= y

HasPrefix(s, p) == Len(s) >= Len(p) /\ Sub(s, 1, Len(p)) = p

HasSuffix(s, p) == Len(s) >= Len(p) /\ Sub(s, Len(s) - Len(p) + 1, Len(s)) = p

From(s, i) == Sub(s, i, Len(s))

AllIn(s, set) == \A i \in 1..Len(s) : At(s, i) \in set

RECURSIVE Repeat(_, _)
Repeat(s, n) ==
    IF n <= 0 THEN ""
    ELSE IF n = 1 THEN s
    ELSE Repeat(s, n \div 2) \o Repeat(s, n - (n \div 2))

\* positions at which sub occurs in s
Occurrences(s, sub) ==
    {i \in 1..(Len(s) - Len(sub) + 1) : Sub(s, i, i + Len(sub) - 1) = sub}

\* strings.Replace(s, old, "", 1): the first occurrence of old removed
ReplaceFirst(s, old) ==
    IF Len(old) = 0 \/ Occurrences(s, old) = {} THEN s
    ELSE LET i == Min(Occurrences(s, old))
         IN  Sub(s, 1, i - 1) \o From(s, i + Len(old))

\* strings.Replace(s, old, "", -1): every occurrence of the one-byte old removed
RECURSIVE RemoveAll(_, _)
RemoveAll(s, old) ==
    IF Len(s) = 0 THEN ""
    ELSE IF Len(s) = 1 THEN (IF s = old THEN "" ELSE s)
    ELSE LET h == Len(s) \div 2
         IN  RemoveAll(Sub(s, 1, h), old) \o RemoveAll(From(s, h + 1), old)

Digits == {"0", "1", "2", "3", "4", "5", "6", "7", "8", "9"}

\* [0-9a-f]
LowerHex == Digits \cup {"a", "b", "c", "d", "e", "f"}

\* [0-9a-fA-F]
AnyHex == LowerHex \cup {"A", "B", "C", "D", "E", "F"}

\* length of an object name in hex
ShaLen == 40

-----------------------------------------------------------------------------
(* Routing (routing.go)                                                    *)

\* the keys of the services() map, one per routing regex
Regexes ==
    {"_serviceRpcUpload", "_serviceRpcReceive", "_getInfoRefs", "_getHead",
     "_getAlternates", "_getHttpAlternates", "_getInfoPacks", "_getInfoFile",
     "_getLooseObject", "_getPackFile", "_getIdxFile"}

\* t matches /objects/[0-9a-f]{2}/[0-9a-f]{38}$ from its first byte
LooseObjectTail(t) ==
    /\ Len(t) = 9 + 2 + 1 + (ShaLen - 2)
    /\ Sub(t, 1, 9) = "/objects/"
    /\ AllIn(Sub(t, 10, 11), LowerHex)
    /\ At(t, 12) = "/"
    /\ AllIn(From(t, 13), LowerHex)

\* t matches /objects/pack/pack-[0-9a-f]{40}\.<ext>$ from its first byte
PackTail(t, ext) ==
    /\ Len(t) = 19 + ShaLen + Len(ext)
    /\ Sub(t, 1, 19) = "/objects/pack/pack-"
    /\ AllIn(Sub(t, 20, 19 + ShaLen), LowerHex)
    /\ From(t, 20 + ShaLen) = ext

\* t matches /objects/info/[^/]*$ from its first byte
InfoFileTail(t) ==
    /\ HasPrefix(t, "/objects/info/")
    /\ \A i \in 15..Len(t) : At(t, i) # "/"

\* the part of each routing regex after its group (.*?), anchored at both ends
TailMatches(re, t) ==
    CASE re = "_serviceRpcUpload"  -> t = "/git-upload-pack"
      [] re = "_serviceRpcReceive" -> t = "/git-receive-pack"
      [] re = "_getInfoRefs"       -> t = "/info/refs"
      [] re = "_getHead"           -> t = "/HEAD"
      [] re = "_getAlternates"     -> t = "/objects/info/alternates"
      [] re = "_getHttpAlternates" -> t = "/objects/info/http-alternates"
      [] re = "_getInfoPacks"      -> t = "/objects/info/packs"
      [] re = "_getInfoFile"       -> InfoFileTail(t)
      [] re = "_getLooseObject"    -> LooseObjectTail(t)
      [] re = "_getPackFile"       -> PackTail(t, ".pack")
      [] re = "_getIdxFile"        -> PackTail(t, ".idx")

\* lengths k such that the rest of path after its first k bytes matches the tail
TailStarts(re, path) ==
    {k \in 0..Len(path) : TailMatches(re, From(path, k + 1))}

\* index of the last newline among the first k bytes of s, 0 if there is none
LastNewline(s, k) == Max({0} \cup {i \in 1..k : At(s, i) = "\n"})

\* re.FindStringSubmatch(path) # nil
Matches(re, path) == TailStarts(re, path) # {}

\* m[1] of re.FindStringSubmatch(path): the regex is not anchored at the start
\* and "." does not match a newline, so the leftmost match starts after the
\* last newline before the tail; the lazy group takes the shortest prefix.
Submatch1(re, path) ==
    LET k == Min(TailStarts(re, path))
    IN  Sub(path, LastNewline(path, k) + 1, k)

\* services(): the Service of each regex
services ==
    [re \in Regexes |->
        CASE re = "_serviceRpcUpload"  -> [Method |-> "POST", Handler |-> "serviceRpc", Rpc |-> "upload-pack"]
          [] re = "_serviceRpcReceive" -> [Method |-> "POST", Handler |-> "serviceRpc", Rpc |-> "receive-pack"]
          [] re = "_getInfoRefs"       -> [Method |-> "GET", Handler |-> "getInfoRefs", Rpc |-> ""]
          [] re = "_getHead"           -> [Method |-> "GET", Handler |-> "getTextFile", Rpc |-> ""]
          [] re = "_getAlternates"     -> [Method |-> "GET", Handler |-> "getTextFile", Rpc |-> ""]
          [] re = "_getHttpAlternates" -> [Method |-> "GET", Handler |-> "getTextFile", Rpc |-> ""]
          [] re = "_getInfoPacks"      -> [Method |-> "GET", Handler |-> "getInfoPacks", Rpc |-> ""]
          [] re = "_getInfoFile"       -> [Method |-> "GET", Handler |-> "getTextFile", Rpc |-> ""]
          [] re = "_getLooseObject"    -> [Method |-> "GET", Handler |-> "getLooseObject", Rpc |-> ""]
          [] re = "_getPackFile"       -> [Method |-> "GET", Handler |-> "getPackFile", Rpc |-> ""]
          [] re = "_getIdxFile"        -> [Method |-> "GET", Handler |-> "getIdxFile", Rpc |-> ""]]

NoSvc == [re |-> "", repo |-> ""]

\* getService(path): the loop ranges over a Go map, whose iteration order is
\* unspecified and differs from call to call, so the result is the match of
\* any regex that matches; NoSvc (service == nil) when none does.
getService(path) ==
    IF \E re \in Regexes : Matches(re, path)
    THEN {[re |-> re, repo |-> Submatch1(re, path)] :
             re \in {r \in Regexes : Matches(r, path)}}
    ELSE {NoSvc}

-----------------------------------------------------------------------------
(* The file system and the git binary (external to the program)            *)

\* GitHttp.ProjectRoot, as given to New(root)
ProjectRoot == "/srv/git"

\* os.Getwd() of the server process
Cwd == "/home/git"

ObjectFile == "ab/" \o Repeat("c", ShaLen - 2)

PackName == "pack-" \o Repeat("d", ShaLen)

\* what os.Stat finds: two repositories under the root (r, and s which sets
\* http.uploadpack and http.receivepack), and directories outside the root
ExistingPaths ==
    {"/", "/etc", "/etc/objects", "/etc/objects/info", "/etc/HEAD", "/srv", "/srv/git",
     "/srv/git/r", "/srv/git/r/HEAD", "/srv/git/r/info", "/srv/git/r/info/refs",
     "/srv/git/r/objects", "/srv/git/r/objects/info",
     "/srv/git/r/objects/info/packs", "/srv/git/r/objects/info/HEAD",
     "/srv/git/r/objects/ab", "/srv/git/r/objects/" \o ObjectFile,
     "/srv/git/r/objects/pack", "/srv/git/r/objects/pack/" \o PackName \o ".pack",
     "/srv/git/r/objects/pack/" \o PackName \o ".idx",
     "/srv/git/s", "/srv/git/s/HEAD"}

\* os.IsNotExist(err) of os.Stat(p)
IsNotExist(p) == p \notin ExistingPaths

\* content of a file, as http.ServeFile sends it
FileContent(p) == "<file " \o p \o ">"

\* standard output of `git config <name>` run in dir: the value and a newline,
\* nothing when the repository does not set it
GitConfigOutput(config_name, dir) ==
    CASE dir = "/srv/git/s" /\ config_name = "http.uploadpack"  -> "false\n"
      [] dir = "/srv/git/s" /\ config_name = "http.receivepack" -> "true\n"
      [] OTHER -> ""

\* standard output of `git <rpc> --stateless-rpc --advertise-refs .`
AdvertisedRefs(rpc) == "<refs of " \o rpc \o ">"

-----------------------------------------------------------------------------
(* path.Join and path.Clean of the Go standard library                     *)

\* the segments of s between the separators "/"
Split(s) ==
    LET seps == {i \in 1..Len(s) : At(s, i) = "/"}
        \* the position of the k-th separator; 0 and Len(s) + 1 bound the string
        sep(k) == IF k = 0 THEN 0
                  ELSE IF k > Cardinality(seps) THEN Len(s) + 1
                  ELSE CHOOSE i \in seps : Cardinality({j \in seps : j < i}) = k - 1
    IN  [k \in 1..(Cardinality(seps) + 1) |-> Sub(s, sep(k - 1) + 1, sep(k) - 1)]

RECURSIVE JoinSegs(_)
JoinSegs(segs) ==
    IF segs = <<>> THEN ""
    ELSE IF Len(segs) = 1 THEN segs[1]
    ELSE segs[1] \o "/" \o JoinSegs(Tail(segs))

\* the segments of a cleaned path: "" and "." dropped, ".." removes the segment
\* before it, is dropped at the root and is kept at the start of a relative path
RECURSIVE CleanSegs(_, _, _)
CleanSegs(segs, out, rooted) ==
    IF segs = <<>> THEN out
    ELSE LET h == Head(segs)
             t == Tail(segs)
         IN  IF h = "" \/ h = "." THEN CleanSegs(t, out, rooted)
             ELSE IF h = ".."
             THEN IF out # <<>> /\ out[Len(out)] # ".."
                  THEN CleanSegs(t, SubSeq(out, 1, Len(out) - 1), rooted)
                  ELSE IF rooted THEN CleanSegs(t, out, rooted)
                  ELSE CleanSegs(t, Append(out, ".."), rooted)
             ELSE CleanSegs(t, Append(out, h), rooted)

\* path.Clean(p)
Clean(p) ==
    IF p = "" THEN "."
    ELSE LET rooted == At(p, 1) = "/"
             body == JoinSegs(CleanSegs(Split(p), <<>>, rooted))
         IN  IF rooted THEN "/" \o body
             ELSE IF body = "" THEN "." ELSE body

\* path.Join(a, b): the non-empty elements joined by "/", then cleaned
Join(a, b) ==
    IF a = "" /\ b = "" THEN ""
    ELSE IF a = "" THEN Clean(b)
    ELSE IF b = "" THEN Clean(a)
    ELSE Clean(a \o "/" \o b)

NoDir == [dir |-> "", err |-> TRUE]

\* the same without the os.Stat of the directory
getGitDirUnchecked(file_path) ==
    [dir |-> Join(IF ProjectRoot = "" THEN Cwd ELSE ProjectRoot, file_path), err |-> FALSE]

\* getGitDir(file_path): the directory and whether err # nil
getGitDir(file_path) ==
    LET root == IF ProjectRoot = "" THEN Cwd ELSE ProjectRoot
        f == Join(root, file_path)
    IN  IF IsNotExist(f) THEN NoDir ELSE [dir |-> f, err |-> FALSE]

-----------------------------------------------------------------------------
(* The response writer and the error responses (git-http.go)               *)

WriteHeader(ww, code) == Append(ww, <<"WriteHeader", code>>)

Write(ww, data) == Append(ww, <<"Write", data>>)

SetHeader(ww, key, value) == Append(ww, <<"Header", key, value>>)

renderMethodNotAllowed(ww, r) ==
    IF r.Proto = "HTTP/1.1"
    THEN Write(WriteHeader(ww, 405), "Method Not Allowed")
    ELSE Write(WriteHeader(ww, 400), "Bad Request")

renderNotFound(ww) == Write(WriteHeader(ww, 404), "Not Found")

\* the same without the body
renderNoAccessStatusOnly(ww) == WriteHeader(ww, 403)

renderNoAccess(ww) == Write(WriteHeader(ww, 403), "Forbidden")

hdrNocache(ww) ==
    SetHeader(SetHeader(SetHeader(ww,
        "Expires", "Fri, 01 Jan 1980 00:00:00 GMT"),
        "Pragma", "no-cache"),
        "Cache-Control", "no-cache, max-age=0, must-revalidate")

\* the same with Expires set to the time of the request
hdrCacheForeverExpiresNow(ww, now) ==
    SetHeader(SetHeader(SetHeader(ww,
        "Date", now),
        "Expires", now),
        "Cache-Control", "public, max-age=31536000")

\* hdrCacheForever(w) when time.Now().Unix() is now
hdrCacheForever(ww, now) ==
    SetHeader(SetHeader(SetHeader(ww,
        "Date", now),
        "Expires", now + 31536000),
        "Cache-Control", "public, max-age=31536000")

\* the calls of one kind made on the response writer, in order
Calls(ww, kind) == SelectSeq(ww, LAMBDA c : c[1] = kind)

\* the status the client receives: that of the first WriteHeader; 200 when the
\* handler wrote or returned without calling WriteHeader; 0 while nothing is sent
Status(ww) ==
    LET sent == SelectSeq(ww, LAMBDA c : c[1] \in {"WriteHeader", "Write"})
    IN  IF sent = <<>> THEN 0
        ELSE IF sent[1][1] = "WriteHeader" THEN sent[1][2] ELSE 200

RECURSIVE Concat(_)
Concat(chunks) == IF chunks = <<>> THEN "" ELSE chunks[1][2] \o Concat(Tail(chunks))

\* the bytes written as the response body
Body(ww) == Concat(Calls(ww, "Write"))

\* the value of a response header as the client receives it: set before the
\* status was sent, the last Set wins; "" when absent
HeaderValue(ww, key) ==
    LET sentAt == {i \in 1..Len(ww) : ww[i][1] \in {"WriteHeader", "Write"}}
        upto == IF sentAt = {} THEN Len(ww) ELSE Min(sentAt)
        sets == {i \in 1..upto : ww[i][1] = "Header" /\ ww[i][2] = key}
    IN  IF sets = {} THEN "" ELSE ww[Max(sets)][3]

-----------------------------------------------------------------------------
(* Packet lines (git-http.go)                                              *)

HexDigit(d) == At("0123456789abcdef", d + 1)

\* strconv.FormatInt(n, 16)
RECURSIVE FormatHex(_)
FormatHex(n) == IF n < 16 THEN HexDigit(n) ELSE FormatHex(n \div 16) \o HexDigit(n % 16)

packetFlush == "0000"

\* the same without the padding of the length
packetWriteUnpadded(str) == FormatHex(Len(str) + 4) \o str

packetWrite(str) ==
    LET s == FormatHex(Len(str) + 4)
    IN  (IF Len(s) % 4 # 0 THEN Repeat("0", 4 - (Len(s) % 4)) ELSE "") \o s \o str

-----------------------------------------------------------------------------
(* Access policy (git-http.go)                                             *)

\* getGitConfig: the output without its last byte; on an empty output the slice
\* out[0 : len(out)-1] is out of range and the goroutine panics
getGitConfig(config_name, dir) ==
    LET out == GitConfigOutput(config_name, dir)
    IN  IF out = "" THEN "<panic: slice bounds out of range>"
        ELSE Sub(out, 1, Len(out) - 1)

getConfigSetting(service_name, dir) ==
    LET name == RemoveAll(service_name, "-")
        setting == getGitConfig("http." \o name, dir)
    IN  IF name = "uploadpack" THEN setting # "false" ELSE setting = "true"

\* the same without the check of the content type
hasAccessAnyContentType(r, dir, rpc, check_content_type) ==
    IF ~(rpc = "upload-pack" \/ rpc = "receive-pack") THEN FALSE
    ELSE IF rpc = "receive-pack" THEN ReceivePack
    ELSE IF rpc = "upload-pack" THEN UploadPack
    ELSE getConfigSetting(rpc, dir)

\* the same with every name that is not receive-pack treated as upload-pack
hasAccessAnyName(r, dir, rpc, check_content_type) ==
    IF check_content_type /\ r.ContentType # "application/x-git-" \o rpc \o "-request"
    THEN FALSE
    ELSE IF rpc = "receive-pack" THEN ReceivePack
    ELSE UploadPack

hasAccess(r, dir, rpc, check_content_type) ==
    IF check_content_type
       /\ r.ContentType # "application/x-git-" \o rpc \o "-request"
    THEN FALSE
    ELSE IF ~(rpc = "upload-pack" \/ rpc = "receive-pack") THEN FALSE
    ELSE IF rpc = "receive-pack" THEN ReceivePack
    ELSE IF rpc = "upload-pack" THEN UploadPack
    ELSE getConfigSetting(rpc, dir)

\* getServiceType(r): the "service" form value without its prefix "git-"
getServiceType(r) ==
    IF ~HasPrefix(r.Service, "git-") THEN "" ELSE ReplaceFirst(r.Service, "git-")

-----------------------------------------------------------------------------
(* The request body and its content encodings                              *)

RECURSIVE Reverse(_)
Reverse(s) ==
    IF Len(s) <= 1 THEN s
    ELSE LET h == Len(s) \div 2
         IN  Reverse(From(s, h + 1)) \o Reverse(Sub(s, 1, h))

\* A compressed stream is written symbolically: a header naming the format,
\* the transformed data (never the plain bytes), and a trailer.
Compress(format, data) == format \o "{" \o Reverse(data) \o "}"

\* what reading a decompressor over body yields before it ends or fails
Decompress(format, body) ==
    IF ~HasPrefix(body, format \o "{") THEN ""
    ELSE LET rest == From(body, Len(format) + 2)
         IN  Reverse(IF HasSuffix(rest, "}") THEN Sub(rest, 1, Len(rest) - 1) ELSE rest)

\* requestReader(req): err # nil only when gzip.NewReader cannot read a gzip
\* header; flate.NewReader never fails; any other encoding reads the raw body
requestReader(r) ==
    CASE r.ContentEncoding = "gzip" ->
             [err |-> ~HasPrefix(r.Body, "GZ{"), kind |-> "gzip"]
      [] r.ContentEncoding = "deflate" -> [err |-> FALSE, kind |-> "deflate"]
      [] OTHER -> [err |-> FALSE, kind |-> "raw"]

\* ioutil.ReadAll(reader), its error dropped: the bytes read before the end of
\* the stream or the first error
ReadAll(r) ==
    CASE requestReader(r).kind = "gzip" -> Decompress("GZ", r.Body)
      [] requestReader(r).kind = "deflate" -> Decompress("FL", r.Body)
      [] OTHER -> r.Body

-----------------------------------------------------------------------------
(* Event extraction (git-http.go)                                          *)

TAG == 1

PUSH == 2

FETCH == 3

\* the byte 0x00, which a TLA+ string cannot hold, is written "~" (a byte
\* that git does not allow in a ref name)
NUL == "~"

\* \s of the regex syntax
Whitespace == {" ", "\t", "\n", "\r", "\f"}

\* uploadPackRegex.FindAllStringSubmatch(s, -1), each match as <<m[1]>>.
\* ^\S+ ([0-9a-fA-F]{40}): "^" matches only where the text starts, so there
\* is at most one match.
uploadPackMatches(s) ==
    LET ws == {i \in 1..Len(s) : At(s, i) \in Whitespace}
        sp == IF ws = {} THEN 0 ELSE Min(ws)
    IN  IF /\ sp > 1
           /\ At(s, sp) = " "
           /\ Len(s) >= sp + ShaLen
           /\ AllIn(Sub(s, sp + 1, sp + ShaLen), AnyHex)
        THEN << <<Sub(s, sp + 1, sp + ShaLen)>> >>
        ELSE << >>

NoMatch == [m |-> <<>>, end |-> 0]

\* the match at position p of the first alternative of receivePackRegex,
\* ([0-9a-fA-F]{40}) ([0-9a-fA-F]{40}) refs\/(heads|tags)\/(.*?)( |00|\u0000):
\* its groups m[1..6] and the index of its last byte
RefUpdateAt(s, p) ==
    LET o == p + 2 * ShaLen + 1
        ns == IF Sub(s, o + 6, o + 11) = "heads/" THEN "heads"
              ELSE IF Sub(s, o + 6, o + 10) = "tags/" THEN "tags" ELSE ""
        q == o + 7 + Len(ns)
        newlines == {i \in q..Len(s) : At(s, i) = "\n"}
        limit == IF newlines = {} THEN Len(s) ELSE Min(newlines)
        term(j) == IF At(s, j) = " " THEN " "
                   ELSE IF Sub(s, j, j + 1) = "00" THEN "00"
                   ELSE IF At(s, j) = NUL THEN NUL ELSE ""
        ends == {j \in q..limit : term(j) # ""}
    IN  IF /\ Len(s) >= o + 6
           /\ AllIn(Sub(s, p, p + ShaLen - 1), AnyHex)
           /\ At(s, p + ShaLen) = " "
           /\ AllIn(Sub(s, p + ShaLen + 1, o - 1), AnyHex)
           /\ Sub(s, o, o + 5) = " refs/"
           /\ ns # ""
           /\ ends # {}
        THEN LET j == Min(ends)
             IN  [m |-> <<Sub(s, p, p + ShaLen - 1),
                          Sub(s, p + ShaLen + 1, o - 1),
                          ns, Sub(s, q, j - 1), term(j), "">>,
                  end |-> j + Len(term(j)) - 1]
        ELSE NoMatch

\* the successive leftmost matches of the first alternative from position from
RECURSIVE ScanRefUpdates(_, _)
ScanRefUpdates(s, from) ==
    LET starts == {p \in from..Len(s) : RefUpdateAt(s, p) # NoMatch}
    IN  IF starts = {} THEN << >>
        ELSE LET found == RefUpdateAt(s, Min(starts))
             IN  <<found.m>> \o ScanRefUpdates(s, found.end + 1)

\* receivePackRegex.FindAllStringSubmatch(s, -1), each match as m[1..6].
\* The second alternative ^(0000)$ matches only a text that is exactly 0000,
\* and leaves the groups of the first alternative empty.
receivePackMatches(s) ==
    IF s = "0000" THEN << <<"", "", "", "", "", "0000">> >>
    ELSE ScanRefUpdates(s, 1)

Event(type, commit, dir, tag, last, branch) ==
    [Type |-> type, Commit |-> commit, Dir |-> dir, Tag |-> tag, Last |-> last,
     Branch |-> branch]

\* the event serviceRpc builds from one match of receivePackRegex
receivePackEvent(m, dir) ==
    IF m[3] = "heads"
    THEN Event(PUSH, m[2], dir, "", m[1], m[4])
    ELSE Event(TAG, m[2], dir, m[4], m[1], "")

\* the events serviceRpc (git-http.go) fires for the payload it has read
payloadEvents(rpc, dir, data) ==
    IF rpc = "upload-pack"
    THEN LET ms == uploadPackMatches(data)
         IN  [i \in 1..Len(ms) |-> Event(FETCH, ms[i][1], dir, "", "", "")]
    ELSE IF rpc = "receive-pack"
    THEN LET ms == receivePackMatches(data)
         IN  [i \in 1..Len(ms) |-> receivePackEvent(ms[i], dir)]
    ELSE << >>

-----------------------------------------------------------------------------
(* The requests a client may send                                          *)

Req(method, prefix, suffix, proto, ctype, cenc, service, body, lines) ==
    [Method |-> method, Path |-> prefix \o suffix, Proto |-> proto,
     ContentType |-> ctype, ContentEncoding |-> cenc, Service |-> service,
     Body |-> body,
     \* what the client meant, kept to state the properties: the repository
     \* prefix and endpoint suffix the path was built from, and the ref
     \* updates or wants the payload was built from
     Prefix |-> prefix, Suffix |-> suffix, Lines |-> lines]

NoReq == Req("", "", "", "", "", "", "", "", << >>)

\* the HTTP surface: the suffix of each endpoint with the method and the
\* operation (handler, and RPC name for the two RPC endpoints) listed for it
Endpoints ==
    {[Suffix |-> "/git-upload-pack",  Method |-> "POST", Handler |-> "serviceRpc", Rpc |-> "upload-pack"],
     [Suffix |-> "/git-receive-pack", Method |-> "POST", Handler |-> "serviceRpc", Rpc |-> "receive-pack"],
     [Suffix |-> "/info/refs", Method |-> "GET", Handler |-> "getInfoRefs", Rpc |-> ""],
     [Suffix |-> "/HEAD", Method |-> "GET", Handler |-> "getTextFile", Rpc |-> ""],
     [Suffix |-> "/objects/info/alternates", Method |-> "GET", Handler |-> "getTextFile", Rpc |-> ""],
     [Suffix |-> "/objects/info/http-alternates", Method |-> "GET", Handler |-> "getTextFile", Rpc |-> ""],
     [Suffix |-> "/objects/info/packs", Method |-> "GET", Handler |-> "getInfoPacks", Rpc |-> ""],
     [Suffix |-> "/objects/info/exclude", Method |-> "GET", Handler |-> "getTextFile", Rpc |-> ""],
     [Suffix |-> "/objects/" \o ObjectFile, Method |-> "GET", Handler |-> "getLooseObject", Rpc |-> ""],
     [Suffix |-> "/objects/pack/" \o PackName \o ".pack", Method |-> "GET", Handler |-> "getPackFile", Rpc |-> ""],
     [Suffix |-> "/objects/pack/" \o PackName \o ".idx", Method |-> "GET", Handler |-> "getIdxFile", Rpc |-> ""]}

\* suffixes that are no endpoint
OtherSuffixes == {"/index.html", "/objects/pack/pack-1234.pack", "/refs/heads/master"}

\* repository prefixes: none, the repositories r and s, a missing one, one that
\* ends like an endpoint, one that climbs out of the root, one with a newline
Prefixes == {"", "/r", "/s", "/nope", "/r/objects/info", "/../../etc", "/x\n/r"}

Methods == {"GET", "POST"}

Protos == {"HTTP/1.1", "HTTP/1.0"}

RequestType(rpc) == "application/x-git-" \o rpc \o "-request"

\* requests that exercise the router: every prefix, suffix, method and protocol
RoutingRequests ==
    {Req(m, p, e.Suffix, proto, IF e.Rpc = "" THEN "" ELSE RequestType(e.Rpc),
         "", "", "", << >>) :
        m \in Methods, p \in Prefixes, e \in Endpoints, proto \in Protos}
    \cup {Req(m, p, x, "HTTP/1.1", "", "", "", "", << >>) :
        m \in Methods, p \in Prefixes, x \in OtherSuffixes}

Zeros == Repeat("0", ShaLen)

ShaA == "92eef6dcb9cc198bc3ac6010c108fa482773f116"

ShaB == "a647ec2ea40ee9ca35d32232dc28de22b1537e00"

RefUpdate(old, new, ns, name) == [old |-> old, new |-> new, ns |-> ns, name |-> name]

\* <old-sha> <new-sha> refs/<ns>/<name>
RefLine(l) == l.old \o " " \o l.new \o " refs/" \o l.ns \o "/" \o l.name

Capabilities == NUL \o " report-status side-band-64k"

\* a receive-pack payload with one command, as a git client sends it: the
\* command and the capabilities in one packet line, then a flush packet
OneCommand(l) == packetWrite(RefLine(l) \o Capabilities) \o packetFlush

PushMaster == RefUpdate(Zeros, ShaA, "heads", "master")

TagV1 == RefUpdate(Zeros, ShaB, "tags", "v1")

PushV100 == RefUpdate(ShaA, ShaB, "heads", "v100")

\* receive-pack payloads with the ref updates each was built from
ReceivePayloads ==
    {[text |-> OneCommand(PushMaster), lines |-> <<PushMaster>>],
     [text |-> OneCommand(TagV1), lines |-> <<TagV1>>],
     [text |-> packetWrite(RefLine(PushMaster) \o Capabilities)
                   \o packetWrite(RefLine(TagV1)) \o packetFlush,
      lines |-> <<PushMaster, TagV1>>],
     [text |-> OneCommand(PushV100), lines |-> <<PushV100>>],
     [text |-> packetFlush, lines |-> << >>],
     [text |-> "", lines |-> << >>]}

WantLine(sha) == packetWrite("want " \o sha \o "\n")

\* upload-pack payloads with the object names each asks for
UploadPayloads ==
    {[text |-> WantLine(ShaB) \o packetFlush \o packetWrite("done\n"), lines |-> <<ShaB>>],
     [text |-> WantLine(ShaB) \o WantLine(ShaA) \o packetFlush \o packetWrite("done\n"),
      lines |-> <<ShaB, ShaA>>],
     [text |-> packetFlush, lines |-> << >>]}

Payloads(rpc) == IF rpc = "upload-pack" THEN UploadPayloads ELSE ReceivePayloads

\* the ways a client may encode a payload: the header it sends and the body
Encodings(text) ==
    {[cenc |-> "", body |-> text],
     [cenc |-> "gzip", body |-> Compress("GZ", text)],
     [cenc |-> "gzip", body |-> text],
     [cenc |-> "gzip", body |-> "GZ{" \o Reverse(text)],
     [cenc |-> "deflate", body |-> Compress("FL", text)],
     [cenc |-> "deflate", body |-> text],
     [cenc |-> "br", body |-> Compress("BR", text)]}

\* the payload sent in every encoding
EncodedPayload(rpc) ==
    IF rpc = "upload-pack"
    THEN [text |-> WantLine(ShaB) \o packetFlush \o packetWrite("done\n"), lines |-> <<ShaB>>]
    ELSE [text |-> OneCommand(PushMaster), lines |-> <<PushMaster>>]

\* RPC requests to repository r: every payload unencoded with the content type
\* of either RPC or of neither, and one payload in every encoding
RpcRequestsOf(rpc) ==
    {Req("POST", "/r", "/git-" \o rpc, "HTTP/1.1", ct, "", "", pl.text, pl.lines) :
        ct \in {RequestType("upload-pack"), RequestType("receive-pack"), "text/plain"},
        pl \in Payloads(rpc)}
    \cup {Req("POST", "/r", "/git-" \o rpc, "HTTP/1.1", RequestType(rpc), e.cenc, "",
              e.body, EncodedPayload(rpc).lines) :
        e \in Encodings(EncodedPayload(rpc).text)}

RpcRequests == RpcRequestsOf("upload-pack") \cup RpcRequestsOf("receive-pack")

\* ref advertisement requests: each value of the "service" form field
InfoRefsRequests ==
    {Req("GET", "/r", "/info/refs", "HTTP/1.1", "", "", service, "", << >>) :
        service \in {"git-upload-pack", "git-receive-pack", "upload-pack",
                     "git-archive", "git-git-upload-pack"}}

Requests == RoutingRequests \cup RpcRequests \cup InfoRefsRequests

\* values of time.Now().Unix()
StartTime == 1700000000

Clock == StartTime..(StartTime + MaxTicks)

\* the numbers of bytes the subprocess may write to its standard output
OutLens == {0, 1, PipeCap + MaxExtraOut}

-----------------------------------------------------------------------------
(* State                                                                   *)

NoHr == [Rpc |-> "", Dir |-> "", File |-> ""]

\* exec.Cmd before exec.Command: each pipe is "nil" (never opened), "open" or
\* "closed"
NoCmd == [made |-> FALSE, stdin |-> "nil", stdout |-> "nil", started |-> FALSE,
          waited |-> FALSE]

\* the subprocess ("none", "run", "wblocked" in a write to a full stdout pipe,
\* "exited", "reaped"), the bytes buffered in each pipe, the bytes the server
\* has still to write, and the bytes the subprocess has still to read and write
NoPipes == [child |-> "none", inBuf |-> 0, outBuf |-> 0, inLeft |-> 0,
            childIn |-> 0, childOut |-> 0]

\* no earlier request
NoPrev == [req |-> NoReq, w |-> << >>]

\* no Authenticator around the server
NoAuth == [header |-> "", parsed |-> [err |-> "", Name |-> "", Pass |-> ""],
           info |-> [Username |-> "", Password |-> "", Repo |-> "", Push |-> FALSE,
                     Fetch |-> FALSE],
           authf |-> [called |-> FALSE, authenticated |-> FALSE, err |-> ""],
           invoked |-> FALSE]

\* no packet line operation called apart from a request
NoPkt == [op |-> "", str |-> "", out |-> ""]

Init ==
    /\ UploadPack \in BOOLEAN
    /\ ReceivePack \in BOOLEAN
    /\ impl \in {"buffered", "reader"}
    /\ req = NoReq
    /\ pc = "idle"
    /\ svc = NoSvc
    /\ hr = NoHr
    /\ handler = ""
    /\ w = << >>
    /\ events = << >>
    /\ execs = << >>
    /\ input = ""
    /\ cmd = NoCmd
    /\ pipes = NoPipes
    /\ pkt = NoPkt
    /\ logged = << >>
    /\ clock = StartTime
    /\ prev = NoPrev
    /\ auth = NoAuth

config == <<UploadPack, ReceivePack, impl>>

\* the server accepts a request
Receive ==
    /\ pc = "idle"
    /\ req' \in Requests
    /\ pc' = "received"
    /\ UNCHANGED <<config, pkt, auth, clock, prev, logged, svc, hr, handler, w, events, execs, input, cmd, pipes>>

\* what requestHandler does with the result s of getService: the error it
\* renders ("NotFound", "MethodNotAllowed", or "" for none) or the handler it
\* calls and the HandlerReq it builds for it
Outcome(render, h, name) == [render |-> render, hr |-> h, handler |-> name]

\* the same with the directory resolved before the method is checked
dispatchResolvingFirst(s, r) ==
    IF s = NoSvc THEN Outcome("NotFound", NoHr, "")
    ELSE IF getGitDir(s.repo).err THEN Outcome("NotFound", NoHr, "")
    ELSE IF services[s.re].Method # r.Method THEN Outcome("MethodNotAllowed", NoHr, "")
    ELSE Outcome("", [Rpc |-> services[s.re].Rpc, Dir |-> getGitDir(s.repo).dir,
                      File |-> ReplaceFirst(r.Path, s.repo \o "/")],
                 services[s.re].Handler)

dispatch(s, r) ==
    IF s = NoSvc THEN Outcome("NotFound", NoHr, "")
    ELSE IF services[s.re].Method # r.Method THEN Outcome("MethodNotAllowed", NoHr, "")
    ELSE LET rpc == services[s.re].Rpc
             file == ReplaceFirst(r.Path, s.repo \o "/")
             d == getGitDir(s.repo)
         IN  IF d.err THEN Outcome("NotFound", NoHr, "")
             ELSE Outcome("", [Rpc |-> rpc, Dir |-> d.dir, File |-> file],
                          services[s.re].Handler)

\* requestHandler (routing.go) up to the call of the handler
requestHandler ==
    /\ pc = "received"
    /\ \E s \in getService(req.Path) :
        LET o == dispatch(s, req)
        IN  /\ svc' = s
            /\ hr' = o.hr
            /\ handler' = o.handler
            /\ w' = IF o.render = "NotFound" THEN renderNotFound(w)
                    ELSE IF o.render = "MethodNotAllowed" THEN renderMethodNotAllowed(w, req)
                    ELSE w
            /\ pc' = IF o.render = "" THEN "handler" ELSE "done"
    /\ UNCHANGED <<config, pkt, auth, clock, prev, logged, req, events, execs, input, cmd, pipes>>

\* sendFile(content_type, hr): the calls it makes on the response writer
sendFile(ww, content_type, h) ==
    LET req_file == Join(h.Dir, h.File)
    IN  IF IsNotExist(req_file) THEN renderNotFound(ww)
        ELSE Write(WriteHeader(
                 SetHeader(SetHeader(SetHeader(ww,
                     "Content-Type", content_type),
                     "Content-Length", Len(FileContent(req_file))),
                     "Last-Modified", "<mtime " \o req_file \o ">"),
                 200), FileContent(req_file))

\* a handler that runs to its end without blocking
Returns(ww) ==
    /\ w' = ww
    /\ pc' = "done"
    /\ UNCHANGED <<config, pkt, auth, clock, prev, req, svc, hr, handler, events, input, cmd, pipes>>

\* gitCommand(dir, args...): the command is run and its output returned, or it
\* fails to start, the error is logged and the output is empty
gitCommand(ok, args) ==
    /\ execs' = IF ok THEN Append(execs, args) ELSE execs
    /\ logged' = IF ok THEN logged ELSE Append(logged, "gitCommand")

\* the same with the flush packet written before the service line
getInfoRefsFlushFirst ==
    /\ pc = "handler" /\ handler = "getInfoRefs"
    /\ LET service_name == getServiceType(req)
       IN  IF hasAccess(req, hr.Dir, service_name, FALSE)
           THEN \E ok \in BOOLEAN :
                LET refs == IF ok THEN AdvertisedRefs(service_name) ELSE ""
                IN  /\ gitCommand(ok, <<service_name, "--stateless-rpc", "--advertise-refs", ".">>)
                    /\ Returns(Write(Write(Write(WriteHeader(
                           SetHeader(hdrNocache(w), "Content-Type",
                               "application/x-git-" \o service_name \o "-advertisement"),
                           200),
                           packetFlush),
                           packetWrite("# service=git-" \o service_name \o "\n")),
                           refs))
           ELSE \E ok \in BOOLEAN :
                /\ gitCommand(ok, <<"update-server-info">>)
                /\ Returns(sendFile(hdrNocache(w), "text/plain; charset=utf-8", hr))

getInfoRefs ==
    /\ pc = "handler" /\ handler = "getInfoRefs"
    /\ LET service_name == getServiceType(req)
       IN  IF hasAccess(req, hr.Dir, service_name, FALSE)
           THEN \E ok \in BOOLEAN :
                LET refs == IF ok THEN AdvertisedRefs(service_name) ELSE ""
                IN  /\ gitCommand(ok, <<service_name, "--stateless-rpc", "--advertise-refs", ".">>)
                    /\ Returns(Write(Write(Write(WriteHeader(
                           SetHeader(hdrNocache(w), "Content-Type",
                               "application/x-git-" \o service_name \o "-advertisement"),
                           200),
                           packetWrite("# service=git-" \o service_name \o "\n")),
                           packetFlush),
                           refs))
           ELSE \E ok \in BOOLEAN :
                /\ gitCommand(ok, <<"update-server-info">>)
                /\ Returns(sendFile(hdrNocache(w), "text/plain; charset=utf-8", hr))

getInfoPacks ==
    /\ pc = "handler" /\ handler = "getInfoPacks"
    /\ Returns(sendFile(hdrCacheForever(w, clock), "text/plain; charset=utf-8", hr))
    /\ UNCHANGED <<execs, logged>>

getLooseObject ==
    /\ pc = "handler" /\ handler = "getLooseObject"
    /\ Returns(sendFile(hdrCacheForever(w, clock), "application/x-git-loose-object", hr))
    /\ UNCHANGED <<execs, logged>>

getPackFile ==
    /\ pc = "handler" /\ handler = "getPackFile"
    /\ Returns(sendFile(hdrCacheForever(w, clock), "application/x-git-packed-objects", hr))
    /\ UNCHANGED <<execs, logged>>

getIdxFile ==
    /\ pc = "handler" /\ handler = "getIdxFile"
    /\ Returns(sendFile(hdrCacheForever(w, clock), "application/x-git-packed-objects-toc", hr))
    /\ UNCHANGED <<execs, logged>>

getTextFile ==
    /\ pc = "handler" /\ handler = "getTextFile"
    /\ Returns(sendFile(hdrNocache(w), "text/plain", hr))
    /\ UNCHANGED <<execs, logged>>

-----------------------------------------------------------------------------
(* The RPC proxy: serviceRpc and the subprocess                            *)

\* the failures of exec.Cmd that may occur while the subprocess is set up
Faults == {"StdinPipe", "StdoutPipe", "Start"}

\* size of the buffer io.Copy reads into
CopyBuf == 32768

\* io.Copy(stdin, rpcReader) reads a buffer full from the reader, writes it,
\* and reads again: the bytes of data it has read from the reader when it has
\* written `written` of them (none when there is nothing to read)
ReadThrough(data, written) ==
    Sub(data, 1, ((written \div CopyBuf) + 1) * CopyBuf)

\* the events RpcReader has collected once the bytes data went through it
RpcReaderEvents(rpc, dir, data) == payloadEvents(rpc, dir, data)

\* the exec.Cmd after StdinPipe, StdoutPipe and Start, given which of them failed:
\* a pipe that failed to open stays nil; a failed Start closes the open pipes
StartedCmd(faults) ==
    [made |-> TRUE,
     stdin |-> IF "StdinPipe" \in faults THEN "nil"
               ELSE IF "Start" \in faults THEN "closed" ELSE "open",
     stdout |-> IF "StdoutPipe" \in faults THEN "nil"
                ELSE IF "Start" \in faults THEN "closed" ELSE "open",
     started |-> "Start" \notin faults,
     waited |-> FALSE]

\* the same with the status sent before the header is set
resultHeaderAfterStatus(ww, rpc) ==
    SetHeader(WriteHeader(ww, 200),
              "Content-Type", "application/x-git-" \o rpc \o "-result")

\* serviceRpc commits the response: the Content-Type header, then status 200
resultHeader(ww, rpc) ==
    WriteHeader(SetHeader(ww, "Content-Type", "application/x-git-" \o rpc \o "-result"),
                200)

\* serviceRpc from its start to the first blocking call: the access check, the
\* body reader, (git-http.go) the payload read and its events fired, the
\* response header and status, and the subprocess set up and started
serviceRpc ==
    /\ pc = "handler" /\ handler = "serviceRpc"
    /\ IF ~hasAccess(req, hr.Dir, hr.Rpc, TRUE)
       THEN /\ w' = renderNoAccess(w)
            /\ pc' = "done"
            /\ UNCHANGED <<events, execs, input, cmd, pipes, logged>>
       ELSE IF requestReader(req).err
       THEN /\ pc' = "done"
            /\ UNCHANGED <<w, events, execs, input, cmd, pipes, logged>>
       ELSE \E faults \in SUBSET Faults, out \in OutLens :
            LET data == ReadAll(req)
                c == StartedCmd(faults)
            IN  /\ input' = data
                /\ events' = IF impl = "buffered"
                             THEN events \o payloadEvents(hr.Rpc, hr.Dir, data)
                             ELSE events
                /\ w' = resultHeader(w, hr.Rpc)
                /\ cmd' = c
                /\ logged' = logged \o SelectSeq(<<"StdinPipe", "StdoutPipe", "Start">>,
                                                 LAMBDA f : f \in faults)
                /\ execs' = IF c.started
                            THEN Append(execs, <<hr.Rpc, "--stateless-rpc", hr.Dir>>)
                            ELSE execs
                /\ pipes' = [child |-> IF c.started THEN "run" ELSE "none",
                             inBuf |-> 0, outBuf |-> 0, inLeft |-> Len(data),
                             childIn |-> IF c.stdin = "open" THEN Len(data) ELSE 0,
                             childOut |-> IF c.started THEN out ELSE 0]
                /\ pc' = "write_stdin"
    /\ UNCHANGED <<config, pkt, auth, clock, prev, req, svc, hr, handler>>

\* in.Write(input) / io.Copy(stdin, rpcReader): the server writes what the
\* stdin pipe has room for
WriteStdin ==
    /\ pc = "write_stdin"
    /\ cmd.stdin = "open"
    /\ pipes.child \in {"run", "wblocked"}
    /\ pipes.inLeft > 0
    /\ pipes.inBuf < PipeCap
    /\ LET n == Smaller(pipes.inLeft, PipeCap - pipes.inBuf)
       IN  pipes' = [pipes EXCEPT !.inBuf = @ + n, !.inLeft = @ - n]
    /\ UNCHANGED <<config, pkt, auth, clock, prev, logged, req, pc, svc, hr, handler, w, events, execs, input, cmd>>

\* the write returns: everything is written, or the pipe is closed (Start
\* failed, or the subprocess is gone) and the error is dropped; a nil stdin is
\* not touched by io.Copy when the reader has no bytes
WriteStdinReturn ==
    /\ pc = "write_stdin"
    /\ \/ cmd.stdin = "closed"
       \/ cmd.stdin = "open" /\ (pipes.inLeft = 0 \/ pipes.child \in {"exited", "none"})
       \/ cmd.stdin = "nil" /\ impl = "reader" /\ input = ""
    /\ pc' = "copy_stdout"
    /\ UNCHANGED <<config, pkt, auth, clock, prev, logged, req, svc, hr, handler, w, events, execs, input, cmd, pipes>>

\* stdin is a nil interface: calling Write on it panics, the handler is
\* unwound and nothing after the call runs
WriteStdinPanic ==
    /\ pc = "write_stdin"
    /\ cmd.stdin = "nil"
    /\ impl = "buffered" \/ input # ""
    /\ pc' = "panicked"
    /\ UNCHANGED <<config, pkt, auth, clock, prev, logged, req, svc, hr, handler, w, events, execs, input, cmd, pipes>>

\* io.Copy(w, stdout): the server forwards what the stdout pipe holds
CopyStdout ==
    /\ pc = "copy_stdout"
    /\ cmd.stdout = "open"
    /\ pipes.outBuf > 0
    /\ w' = Write(w, Repeat("o", pipes.outBuf))
    /\ pipes' = [pipes EXCEPT !.outBuf = 0]
    /\ UNCHANGED <<config, pkt, auth, clock, prev, logged, req, pc, svc, hr, handler, events, execs, input, cmd>>

\* io.Copy(w, stdout) returns: end of file once the subprocess is gone and the
\* pipe is empty, or an error on a closed pipe
CopyStdoutReturn ==
    /\ pc = "copy_stdout"
    /\ \/ cmd.stdout = "closed"
       \/ cmd.stdout = "open" /\ pipes.outBuf = 0 /\ pipes.child \in {"exited", "none"}
    /\ pc' = "wait"
    /\ UNCHANGED <<config, pkt, auth, clock, prev, logged, req, svc, hr, handler, w, events, execs, input, cmd, pipes>>

\* stdout is a nil interface: reading from it panics
CopyStdoutPanic ==
    /\ pc = "copy_stdout"
    /\ cmd.stdout = "nil"
    /\ pc' = "panicked"
    /\ UNCHANGED <<config, pkt, auth, clock, prev, logged, req, svc, hr, handler, w, events, execs, input, cmd, pipes>>

\* the same with the events fired and the function left without cmd.Wait()
WaitSkipped ==
    /\ pc = "wait"
    /\ pipes.child \in {"exited", "none"}
    /\ cmd' = cmd
    /\ pipes' = pipes
    /\ events' = IF impl = "reader"
                 THEN events \o RpcReaderEvents(hr.Rpc, hr.Dir,
                                    ReadThrough(input, Len(input) - pipes.inLeft))
                 ELSE events
    /\ pc' = "done"
    /\ UNCHANGED <<config, pkt, auth, clock, prev, logged, req, svc, hr, handler, w, execs, input>>

\* cmd.Wait() and the rest of serviceRpc: the RpcReader variant fires the
\* events of the bytes that went through the reader
Wait ==
    /\ pc = "wait"
    /\ pipes.child \in {"exited", "none"}
    /\ cmd' = [cmd EXCEPT !.waited = TRUE]
    /\ pipes' = [pipes EXCEPT !.child = IF @ = "exited" THEN "reaped" ELSE @]
    /\ events' = IF impl = "reader"
                 THEN events \o RpcReaderEvents(hr.Rpc, hr.Dir,
                                    ReadThrough(input, Len(input) - pipes.inLeft))
                 ELSE events
    /\ pc' = "done"
    /\ UNCHANGED <<config, pkt, auth, clock, prev, logged, req, svc, hr, handler, w, execs, input>>

\* the subprocess reads what its stdin pipe holds
ChildRead ==
    /\ pipes.child = "run"
    /\ pipes.childIn > 0
    /\ pipes.inBuf > 0
    /\ pipes' = [pipes EXCEPT !.childIn = @ - pipes.inBuf, !.inBuf = 0]
    /\ UNCHANGED <<config, pkt, auth, clock, prev, logged, req, pc, svc, hr, handler, w, events, execs, input, cmd>>

\* the subprocess writes what its stdout pipe has room for (a stdout that was
\* never piped takes everything)
ChildWrite ==
    /\ pipes.child \in {"run", "wblocked"}
    /\ pipes.childOut > 0
    /\ cmd.stdout = "nil" \/ pipes.outBuf < PipeCap
    /\ LET n == IF cmd.stdout = "nil" THEN pipes.childOut
                ELSE Smaller(pipes.childOut, PipeCap - pipes.outBuf)
       IN  pipes' = [pipes EXCEPT !.child = "run", !.childOut = @ - n,
                                  !.outBuf = IF cmd.stdout = "nil" THEN @ ELSE @ + n]
    /\ UNCHANGED <<config, pkt, auth, clock, prev, logged, req, pc, svc, hr, handler, w, events, execs, input, cmd>>

\* the subprocess calls write while its stdout pipe is full: it sleeps in the
\* call and reads nothing until the pipe is drained
ChildBlock ==
    /\ pipes.child = "run"
    /\ pipes.childOut > 0
    /\ cmd.stdout = "open"
    /\ pipes.outBuf = PipeCap
    /\ pipes' = [pipes EXCEPT !.child = "wblocked"]
    /\ UNCHANGED <<config, pkt, auth, clock, prev, logged, req, pc, svc, hr, handler, w, events, execs, input, cmd>>

\* the subprocess has read its input and written its output, and exits
ChildExit ==
    /\ pipes.child = "run"
    /\ pipes.childIn = 0
    /\ pipes.childOut = 0
    /\ pipes' = [pipes EXCEPT !.child = "exited"]
    /\ UNCHANGED <<config, pkt, auth, clock, prev, logged, req, pc, svc, hr, handler, w, events, execs, input, cmd>>

\* the subprocess dies before it is done
ChildCrash ==
    /\ pipes.child = "run"
    /\ pipes.childIn > 0 \/ pipes.childOut > 0
    /\ pipes' = [pipes EXCEPT !.child = "exited", !.childOut = 0]
    /\ UNCHANGED <<config, pkt, auth, clock, prev, logged, req, pc, svc, hr, handler, w, events, execs, input, cmd>>

\* the handler has returned or panicked and the server is ready for a request
Reset ==
    /\ pc \in {"done", "panicked"}
    /\ pc' = "idle"
    /\ req' = NoReq
    /\ svc' = NoSvc
    /\ hr' = NoHr
    /\ handler' = ""
    /\ w' = << >>
    /\ events' = << >>
    /\ execs' = << >>
    /\ input' = ""
    /\ cmd' = NoCmd
    /\ pipes' = NoPipes
    /\ logged' = << >>
    /\ auth' = NoAuth
    /\ UNCHANGED <<config, pkt, clock>>

Finish == Reset /\ UNCHANGED prev

\* time passes between two requests
Tick ==
    /\ pc = "idle"
    /\ clock < StartTime + MaxTicks
    /\ clock' = clock + 1
    /\ UNCHANGED <<config, pkt, auth, prev, logged, req, pc, svc, hr, handler, w, events,
                   execs, input, cmd, pipes>>

Next ==
    \/ Receive
    \/ requestHandler
    \/ getInfoRefs
    \/ getInfoPacks
    \/ getLooseObject
    \/ getPackFile
    \/ getIdxFile
    \/ getTextFile
    \/ serviceRpc
    \/ WriteStdin
    \/ WriteStdinReturn
    \/ WriteStdinPanic
    \/ CopyStdout
    \/ CopyStdoutReturn
    \/ CopyStdoutPanic
    \/ Wait
    \/ ChildRead
    \/ ChildWrite
    \/ ChildBlock
    \/ ChildExit
    \/ ChildCrash
    \/ Finish
    \/ Tick

Spec == Init /\ [][Next]_vars

-----------------------------------------------------------------------------
(* The packet line functions called on their own                           *)

\* lengths of the strings packetWrite is given: the short ones, and those
\* around which the length prefix gains a hex digit
PktLens == 0..MaxShortLen \cup {251, 252, 253, 4091, 4092, 65530, 65531, 65532, 65533}

PktInputs ==
    {Repeat(c, n) : c \in {"a", "0"}, n \in PktLens}
    \cup {"# service=git-upload-pack\n", "# service=git-receive-pack\n", "done\n"}

PktInit ==
    /\ UploadPack = TRUE
    /\ ReceivePack = TRUE
    /\ impl = "buffered"
    /\ req = NoReq
    /\ pc = "idle"
    /\ svc = NoSvc
    /\ hr = NoHr
    /\ handler = ""
    /\ w = << >>
    /\ events = << >>
    /\ execs = << >>
    /\ input = ""
    /\ cmd = NoCmd
    /\ pipes = NoPipes
    /\ pkt \in {[op |-> "", str |-> s, out |-> ""] : s \in PktInputs}
    /\ logged = << >>
    /\ clock = StartTime
    /\ prev = NoPrev
    /\ auth = NoAuth

server == <<UploadPack, ReceivePack, impl, req, pc, svc, hr, handler, w, events,
            execs, input, cmd, pipes, logged, clock, prev, auth>>

\* packetWrite(str) is called
PktWrite ==
    /\ pkt.op = ""
    /\ pkt' = [pkt EXCEPT !.op = "packetWrite", !.out = packetWrite(pkt.str)]
    /\ UNCHANGED server

\* packetFlush() is called
PktFlush ==
    /\ pkt.op = ""
    /\ pkt' = [pkt EXCEPT !.op = "packetFlush", !.out = packetFlush]
    /\ UNCHANGED server

PktNext == PktWrite \/ PktFlush

PktSpec == PktInit /\ [][PktNext]_vars

-----------------------------------------------------------------------------
(* Requests for object files, repeated over time                           *)

ObjectHandlers == {"getLooseObject", "getPackFile", "getIdxFile"}

\* the GET requests for loose objects, packs and pack indexes
ObjectRequests ==
    {r \in RoutingRequests :
        /\ r.Method = "GET"
        /\ \E e \in Endpoints : e.Suffix = r.Suffix /\ e.Handler \in ObjectHandlers}

ObjectInit ==
    /\ UploadPack = TRUE
    /\ ReceivePack = TRUE
    /\ impl = "buffered"
    /\ req = NoReq
    /\ pc = "idle"
    /\ svc = NoSvc
    /\ hr = NoHr
    /\ handler = ""
    /\ w = << >>
    /\ events = << >>
    /\ execs = << >>
    /\ input = ""
    /\ cmd = NoCmd
    /\ pipes = NoPipes
    /\ pkt = NoPkt
    /\ logged = << >>
    /\ clock = StartTime
    /\ prev = NoPrev
    /\ auth = NoAuth

\* the server accepts a request for an object file
ReceiveObject ==
    /\ pc = "idle"
    /\ req' \in ObjectRequests
    /\ pc' = "received"
    /\ UNCHANGED <<config, pkt, auth, clock, prev, logged, svc, hr, handler, w, events, execs,
                   input, cmd, pipes>>

\* the handler has returned; the request and its response are kept to compare
\* a later one with
FinishKept == Reset /\ prev' = [req |-> req, w |-> w]

ObjectNext ==
    \/ ReceiveObject
    \/ requestHandler
    \/ getLooseObject
    \/ getPackFile
    \/ getIdxFile
    \/ FinishKept
    \/ Tick

ObjectSpec == ObjectInit /\ [][ObjectNext]_vars

-----------------------------------------------------------------------------
(* The Authenticator of package auth around the server                     *)

HasNewline(s) == \E i \in 1..Len(s) : At(s, i) = "\n"

\* what repoNameRegex accepts after the captured name
RepoTail(t) ==
    \/ t \in {"/HEAD", "/git-upload-pack", "/git-receive-pack", "/info/refs"}
    \/ HasPrefix(t, "/objects/")

\* the positions from start on at which the rest of urlPath is such a tail
RepoTails(urlPath, start) ==
    {i \in start..Len(urlPath) : RepoTail(From(urlPath, i))}

\* repoName(urlPath): the first submatch of repoNameRegex, "" without a match.
\* The regex takes a leading slash when the rest matches without it, then the
\* shortest name that a tail follows; no part of it matches a newline.
repoName(urlPath) ==
    LET slash == IF HasPrefix(urlPath, "/") THEN RepoTails(urlPath, 2) ELSE {}
        bare == RepoTails(urlPath, 1)
    IN  IF HasNewline(urlPath) THEN ""
        ELSE IF slash # {} THEN Sub(urlPath, 2, Min(slash) - 1)
        ELSE IF bare # {} THEN Sub(urlPath, 1, Min(bare) - 1)
        ELSE ""

isService(service, r) == getServiceType(r) = service \/ HasSuffix(r.Path, service)

isFetch(r) == isService("upload-pack", r)

isPush(r) == isService("receive-pack", r)

\* the Authorization header of TestHeaderParsing
TestHeader == "Basic YWRtaW46cGFzc3dvcmQ="

\* Authorization headers: none, the one of the test, one of another scheme
AuthHeaders == {"", TestHeader, "Bearer abc"}

\* parseAuthHeader(header): the results it may give. Its code is not among the
\* sources; the test tells what it gives for TestHeader, and for any other
\* header it may fail or give credentials.
parseAuthHeader(header) ==
    IF header = TestHeader
    THEN {[err |-> "", Name |-> "admin", Pass |-> "password"]}
    ELSE {[err |-> "invalid authorization header", Name |-> "", Pass |-> ""],
          [err |-> "", Name |-> "git", Pass |-> "secret"]}

\* what the function authf given to Authenticator may return: (authenticated, err)
AuthfResults ==
    {[called |-> TRUE, authenticated |-> a, err |-> e] :
        a \in BOOLEAN, e \in {"", "user database is down"}}

\* http.Error(w, error, code)
httpError(ww, error, code) ==
    Write(WriteHeader(
        SetHeader(SetHeader(ww,
            "Content-Type", "text/plain; charset=utf-8"),
            "X-Content-Type-Options", "nosniff"),
        code), error \o "\n")

\* the requests sent through the Authenticator
AuthRequests ==
    {r \in RoutingRequests : r.Proto = "HTTP/1.1" /\ r.Prefix \in {"", "/r", "/nope"}}
    \cup InfoRefsRequests
    \cup {r \in RpcRequests : r.ContentEncoding = "" /\ r.ContentType = RequestType("receive-pack")}

AuthInit ==
    /\ UploadPack = TRUE
    /\ ReceivePack = TRUE
    /\ impl = "reader"
    /\ req = NoReq
    /\ pc = "idle"
    /\ svc = NoSvc
    /\ hr = NoHr
    /\ handler = ""
    /\ w = << >>
    /\ events = << >>
    /\ execs = << >>
    /\ input = ""
    /\ cmd = NoCmd
    /\ pipes = NoPipes
    /\ pkt = NoPkt
    /\ logged = << >>
    /\ clock = StartTime
    /\ prev = NoPrev
    /\ auth = NoAuth

\* the decorated server accepts a request with an Authorization header
ReceiveAuth ==
    /\ pc = "idle"
    /\ req' \in AuthRequests
    /\ \E h \in AuthHeaders : auth' = [NoAuth EXCEPT !.header = h]
    /\ pc' = "auth"
    /\ UNCHANGED <<config, pkt, clock, prev, logged, svc, hr, handler, w, events, execs,
                   input, cmd, pipes>>

\* the AuthInfo built from the parsed header a and the request r
AuthInfo(a, r) ==
    [Username |-> a.Name, Password |-> a.Pass, Repo |-> repoName(r.Path),
     Push |-> isPush(r), Fetch |-> isFetch(r)]

\* the same with the error of authf not looked at
AuthenticatorIgnoringError ==
    /\ pc = "auth"
    /\ \E a \in parseAuthHeader(auth.header) :
        IF a.err # ""
        THEN /\ w' = httpError(SetHeader(w, "WWW-Authenticate", "Basic realm=\"git server\""),
                               a.err, 401)
             /\ auth' = [auth EXCEPT !.parsed = a]
             /\ pc' = "done"
        ELSE \E res \in AuthfResults :
             IF ~res.authenticated
             THEN /\ w' = Write(WriteHeader(w, 403), "Forbidden")
                  /\ auth' = [auth EXCEPT !.parsed = a, !.info = AuthInfo(a, req),
                                          !.authf = res]
                  /\ pc' = "done"
             ELSE /\ w' = w
                  /\ auth' = [auth EXCEPT !.parsed = a, !.info = AuthInfo(a, req),
                                          !.authf = res, !.invoked = TRUE]
                  /\ pc' = "received"
    /\ UNCHANGED <<config, pkt, clock, prev, logged, req, svc, hr, handler, events, execs,
                   input, cmd, pipes>>

\* the http.HandlerFunc Authenticator(authf)(handler) returns, up to the call
\* of handler.ServeHTTP
Authenticator ==
    /\ pc = "auth"
    /\ \E a \in parseAuthHeader(auth.header) :
        IF a.err # ""
        THEN /\ w' = httpError(SetHeader(w, "WWW-Authenticate", "Basic realm=\"git server\""),
                               a.err, 401)
             /\ auth' = [auth EXCEPT !.parsed = a]
             /\ pc' = "done"
        ELSE \E res \in AuthfResults :
             IF res.err # ""
             THEN /\ w' = httpError(w, res.err, 500)
                  /\ auth' = [auth EXCEPT !.parsed = a, !.info = AuthInfo(a, req),
                                          !.authf = res]
                  /\ pc' = "done"
             ELSE IF ~res.authenticated
             THEN /\ w' = Write(WriteHeader(w, 403), "Forbidden")
                  /\ auth' = [auth EXCEPT !.parsed = a, !.info = AuthInfo(a, req),
                                          !.authf = res]
                  /\ pc' = "done"
             ELSE /\ w' = w
                  /\ auth' = [auth EXCEPT !.parsed = a, !.info = AuthInfo(a, req),
                                          !.authf = res, !.invoked = TRUE]
                  /\ pc' = "received"
    /\ UNCHANGED <<config, pkt, clock, prev, logged, req, svc, hr, handler, events, execs,
                   input, cmd, pipes>>

AuthNext ==
    \/ ReceiveAuth
    \/ Authenticator
    \/ requestHandler
    \/ getInfoRefs
    \/ getInfoPacks
    \/ getLooseObject
    \/ getPackFile
    \/ getIdxFile
    \/ getTextFile
    \/ serviceRpc
    \/ WriteStdin
    \/ WriteStdinReturn
    \/ WriteStdinPanic
    \/ CopyStdout
    \/ CopyStdoutReturn
    \/ CopyStdoutPanic
    \/ Wait
    \/ ChildRead
    \/ ChildWrite
    \/ ChildBlock
    \/ ChildExit
    \/ ChildCrash
    \/ Finish

AuthSpec == AuthInit /\ [][AuthNext]_vars

-----------------------------------------------------------------------------
(* Properties                                                              *)

\* requestHandler has routed the request
Routed == pc \notin {"idle", "received"}

\* serviceRpc has run its access check
RpcChecked == handler = "serviceRpc" /\ pc \notin {"idle", "received", "handler"}

\* the repository root the server resolves prefixes against
Root == IF ProjectRoot = "" THEN Cwd ELSE ProjectRoot

\* C1: a request for a prefix P followed by an endpoint suffix, with the
\* method listed for that endpoint, is dispatched to the operation listed for
\* it with repository prefix P, whichever way getService ranges over the map.
C1_RoutingExact ==
    \A e \in Endpoints :
        (Routed /\ req.Suffix = e.Suffix /\ req.Method = e.Method)
            => /\ svc # NoSvc
               /\ services[svc.re].Handler = e.Handler
               /\ services[svc.re].Rpc = e.Rpc
               /\ svc.repo = req.Prefix

SpecificInfoRegexes == {"_getAlternates", "_getHttpAlternates", "_getInfoPacks"}

\* C2: when a path matches one of the specific objects/info regexes next to the
\* generic one, the request is routed on every occasion as the Service of the
\* specific one says, and P/objects/info/packs is served by getInfoPacks with
\* the long-cache headers.
C2_SpecificPatternWins ==
    /\ \A re \in SpecificInfoRegexes :
           (Routed /\ req.Method = services[re].Method
                   /\ Matches(re, req.Path) /\ Matches("_getInfoFile", req.Path))
               => services[svc.re] = services[re]
    /\ (pc = "done" /\ handler # "" /\ HasSuffix(req.Path, "/objects/info/packs"))
           => /\ handler = "getInfoPacks"
              /\ HeaderValue(w, "Cache-Control") = "public, max-age=31536000"

\* C3: the server is never blocked in its write to the subprocess's stdin
\* while the subprocess is blocked in a write to its stdout.
C3_NoPipeDeadlock ==
    ~ /\ pc = "write_stdin"
      /\ cmd.stdin = "open"
      /\ pipes.inLeft > 0
      /\ pipes.inBuf = PipeCap
      /\ pipes.child = "wblocked"

\* the repository in dir sets neither http.uploadpack nor http.receivepack
NoRepoSetting(dir) ==
    /\ GitConfigOutput("http.uploadpack", dir) = ""
    /\ GitConfigOutput("http.receivepack", dir) = ""

\* C4: for a repository without a setting of its own, an RPC request (with the
\* right content type) is let through when it is upload-pack and is answered
\* 403 when it is receive-pack.
C4_AccessDefaultAsymmetry ==
    (RpcChecked /\ req.ContentType = RequestType(hr.Rpc) /\ NoRepoSetting(hr.Dir))
        => /\ hr.Rpc = "upload-pack" => Status(w) # 403
           /\ hr.Rpc = "receive-pack" => Status(w) = 403

\* dir is the root or lies below it
InsideRoot(dir) == dir = Root \/ HasPrefix(dir, Root \o "/")

\* C5: the directory getGitDir resolves for a routed prefix, and hands to the
\* handler, is never outside the project root.
C5_TraversalGuard == hr # NoHr => InsideRoot(hr.Dir)

MethodNotAllowedResponse(r) ==
    IF r.Proto = "HTTP/1.1"
    THEN << <<"WriteHeader", 405>>, <<"Write", "Method Not Allowed">> >>
    ELSE << <<"WriteHeader", 400>>, <<"Write", "Bad Request">> >>

\* C6: a request whose path matched a regex whose Service has another method
\* than the request's is answered 405 "Method Not Allowed" (HTTP/1.1) or 400
\* "Bad Request" (otherwise) and nothing else, never 404, and no handler is
\* called, whether or not the repository directory exists.
C6_WrongMethod ==
    (Routed /\ svc # NoSvc /\ services[svc.re].Method # req.Method)
        => /\ pc = "done"
           /\ handler = ""
           /\ w = MethodNotAllowedResponse(req)

\* C6 happens: a wrong-method request for a repository that does not exist
C6_Witness ==
    /\ pc = "done"
    /\ svc # NoSvc
    /\ services[svc.re].Method # req.Method
    /\ getGitDir(svc.repo).err
    /\ Status(w) = 405

\* C7: an RPC request handed to serviceRpc whose Content-Type is not
\* application/x-git-<rpc>-request is answered 403 "Forbidden" and nothing
\* else, whatever UploadPack and ReceivePack are; no subprocess is set up.
C7_ContentTypeCheck ==
    (RpcChecked /\ req.ContentType # "application/x-git-" \o hr.Rpc \o "-request")
        => /\ pc = "done"
           /\ w = << <<"WriteHeader", 403>>, <<"Write", "Forbidden">> >>
           /\ cmd = NoCmd

\* C7 happens: both flags allow the operation and the content type is wrong
C7_Witness ==
    /\ RpcChecked
    /\ UploadPack /\ ReceivePack
    /\ req.Method = "POST"
    /\ req.ContentType = "text/plain"
    /\ Status(w) = 403

\* C8: once serviceRpc has passed the access check and obtained the body
\* reader, the request does not end before cmd.Wait was called, and the
\* subprocess is not left behind.
C8_SubprocessReaped ==
    (pc \in {"done", "panicked"} /\ cmd.made)
        => /\ cmd.waited
           /\ pipes.child \in {"none", "reaped"}

\* the event the claim expects for a ref update
RefUpdateEvent(l, dir) ==
    IF l.ns = "heads" THEN Event(PUSH, l.new, dir, "", l.old, l.name)
    ELSE Event(TAG, l.new, dir, l.name, l.old, "")

\* serviceRpc (git-http.go) has fired the events of an unencoded receive-pack payload
ReceiveEventsFired ==
    /\ impl = "buffered"
    /\ RpcChecked
    /\ cmd.made
    /\ hr.Rpc = "receive-pack"
    /\ req.ContentEncoding = ""

\* C9: for every ref update of the payload exactly one event is fired: Push
\* with Last, Commit and Branch for refs/heads/<name>, Tag with Last, Commit
\* and Tag for refs/tags/<name>.
C9_RefUpdateEvents ==
    ReceiveEventsFired
        => \A i \in 1..Len(req.Lines) :
               Cardinality({k \in 1..Len(events) :
                   events[k] = RefUpdateEvent(req.Lines[i], hr.Dir)}) = 1

\* C10: a receive-pack payload that is only the flush line 0000 fires no event.
C10_FlushLineSkipped ==
    (ReceiveEventsFired /\ input = "0000") => events = << >>

\* serviceRpc (git-http.go) has fired the events of an unencoded upload-pack payload
UploadEventsFired ==
    /\ impl = "buffered"
    /\ RpcChecked
    /\ cmd.made
    /\ hr.Rpc = "upload-pack"
    /\ req.ContentEncoding = ""

\* C11: an upload-pack payload fires one Fetch event for each of its want
\* lines, in the order of the lines, with Commit the object name of the line
\* and Last, Branch and Tag empty: one event for one line, two for two.
C11_WantEvents ==
    UploadEventsFired
        => events = [i \in 1..Len(req.Lines) |->
                        Event(FETCH, req.Lines[i], hr.Dir, "", "", "")]

\* the number a string of lowercase hex digits denotes
RECURSIVE ParseHex(_)
ParseHex(s) ==
    IF s = "" THEN 0
    ELSE LET d == At(s, Len(s))
             v == CHOOSE n \in 0..15 : HexDigit(n) = d
         IN  16 * ParseHex(Sub(s, 1, Len(s) - 1)) + v

\* C12: for a string str shorter than 65532 bytes packetWrite(str) is four
\* lowercase hex digits that denote len(str) + 4, followed by str itself;
\* packetFlush() is the four bytes 0000.
C12_PktLineRoundTrip ==
    /\ (pkt.op = "packetWrite" /\ Len(pkt.str) < 65536 - 4)
           => /\ Len(pkt.out) = Len(pkt.str) + 4
              /\ AllIn(Sub(pkt.out, 1, 4), LowerHex)
              /\ ParseHex(Sub(pkt.out, 1, 4)) = Len(pkt.str) + 4
              /\ From(pkt.out, 5) = pkt.str
    /\ pkt.op = "packetFlush" => pkt.out = "0000"

\* C12 happens: the longest string the claim covers was encoded
C12_Witness ==
    /\ pkt.op = "packetWrite"
    /\ Len(pkt.str) = 65531
    /\ Sub(pkt.out, 1, 4) = "ffff"

\* serviceRpc has passed its checks and gone on to the subprocess
Proxying == RpcChecked /\ cmd.made

\* C13: once an RPC request is being proxied, the first things done to the
\* response are the header Content-Type: application/x-git-<rpc>-result and
\* then status 200; all that follows is body, so the status stays what it is
\* whatever happens to the subprocess.
C13_ResultHeaderFirst ==
    Proxying
        => /\ Len(w) >= 2
           /\ w[1] = <<"Header", "Content-Type", "application/x-git-" \o hr.Rpc \o "-result">>
           /\ w[2] = <<"WriteHeader", 200>>
           /\ \A i \in 3..Len(w) : w[i][1] = "Write"
           /\ Status(w) = 200
           /\ HeaderValue(w, "Content-Type") = "application/x-git-" \o hr.Rpc \o "-result"

\* C13 happens: body bytes were forwarded, then the subprocess died with
\* input unread, and the request has ended
C13_Witness ==
    /\ Proxying
    /\ pc = "done"
    /\ Len(w) >= 3
    /\ pipes.childIn > 0

\* C14: when a git command fails to start, or a pipe to it fails to open,
\* before a status was sent, the request is answered 500; when status 200 was
\* already sent (serviceRpc sends it before it creates the command) the
\* response keeps that status.
C14_FailureStatus ==
    /\ (handler = "getInfoRefs" /\ pc = "done" /\ logged # << >>) => Status(w) = 500
    /\ (Proxying /\ logged # << >>) => Status(w) = 200

\* body is a complete stream of the format
WellFormed(format, body) == body = Compress(format, Decompress(format, body))

\* the request names an encoding the server does not decode, or its body is
\* not a complete stream of the encoding it names
DecodingError(r) ==
    \/ r.ContentEncoding \notin {"", "gzip", "deflate"}
    \/ r.ContentEncoding = "gzip" /\ ~WellFormed("GZ", r.Body)
    \/ r.ContentEncoding = "deflate" /\ ~WellFormed("FL", r.Body)

\* C15: an RPC request with an unsupported Content-Encoding, or with a
\* malformed gzip or deflate body, is aborted: no subprocess is given its
\* body, and it gets no 200 application/x-git-<rpc>-result response.
C15_DecodingErrorsAbort ==
    (RpcChecked /\ DecodingError(req))
        => /\ ~cmd.made
           /\ ~ /\ Status(w) = 200
                /\ HeaderValue(w, "Content-Type") = "application/x-git-" \o hr.Rpc \o "-result"

NotFoundResponse == << <<"WriteHeader", 404>>, <<"Write", "Not Found">> >>

\* the directory of the matched repository prefix does not exist
RepoMissing == svc # NoSvc /\ IsNotExist(Join(Root, svc.repo))

RpcEnded == Proxying /\ pc \in {"done", "panicked"}

\* the payload bytes the events are extracted from: all that serviceRpc read
\* (git-http.go), or what went through the RpcReader
PayloadSeen ==
    IF impl = "buffered" THEN input
    ELSE ReadThrough(input, Len(input) - pipes.inLeft)

\* the commit of each match of the operation's regex in data, in the order of
\* the matches in data
MatchedCommits(rpc, data) ==
    IF rpc = "upload-pack"
    THEN [i \in 1..Len(uploadPackMatches(data)) |-> uploadPackMatches(data)[i][1]]
    ELSE [i \in 1..Len(receivePackMatches(data)) |-> receivePackMatches(data)[i][2]]

\* C17: when an RPC request ends, the events given to the event handler are
\* those of the matches in its payload, one event for each match and in the
\* order of the matches, each with Dir the repository directory; none when
\* nothing matches.
C17_EventsDeliveredInOrder ==
    RpcEnded
        => LET commits == MatchedCommits(hr.Rpc, PayloadSeen)
           IN  /\ Len(events) = Len(commits)
               /\ \A i \in 1..Len(events) :
                      /\ events[i].Commit = commits[i]
                      /\ events[i].Dir = hr.Dir

\* a GET for an object file was served, and the same request was served before
ObjectServedAgain ==
    /\ pc = "done"
    /\ handler \in ObjectHandlers
    /\ Status(w) = 200
    /\ prev.req = req

LongCacheHeaders == {"Cache-Control", "Expires", "Date"}

\* C18 as stated: the same GET for an object file, served again at whatever
\* time, has the same body and the same Cache-Control, Expires and Date.
C18_IdenticalResponses ==
    ObjectServedAgain
        => /\ Body(w) = Body(prev.w)
           /\ \A k \in LongCacheHeaders : HeaderValue(w, k) = HeaderValue(prev.w, k)

\* Date is the time of the request and Expires is a year after it
ExpiresInAYear(ww, now) ==
    /\ HeaderValue(ww, "Date") = now
    /\ HeaderValue(ww, "Expires") = now + 31536000

\* C18 amended: the same GET for an object file, served again, has the same
\* status and body and the same Cache-Control: public, max-age=31536000; in
\* each response Date is the time of that request and Expires is 31536000
\* seconds after it, so the two move with the clock.
C18_SameBodyAndMaxAge ==
    ObjectServedAgain
        => /\ Status(prev.w) = 200
           /\ Body(w) = Body(prev.w)
           /\ HeaderValue(w, "Cache-Control") = "public, max-age=31536000"
           /\ HeaderValue(prev.w, "Cache-Control") = "public, max-age=31536000"
           /\ ExpiresInAYear(w, clock)
           /\ \E t \in Clock : t <= clock /\ ExpiresInAYear(prev.w, t)

\* C18 happens: the same pack was served at two different times
C18_Witness ==
    /\ ObjectServedAgain
    /\ handler = "getPackFile"
    /\ HeaderValue(w, "Date") # HeaderValue(prev.w, "Date")

\* getInfoRefs has served a request
RefsServed == handler = "getInfoRefs" /\ pc = "done"

\* the operation the service parameter names, "" when it names none of the two
AdvertisedOp ==
    IF req.Service = "git-upload-pack" THEN "upload-pack"
    ELSE IF req.Service = "git-receive-pack" THEN "receive-pack" ELSE ""

\* the server's flags allow the operation the service parameter names
AdvertisementAllowed ==
    \/ AdvertisedOp = "upload-pack" /\ UploadPack
    \/ AdvertisedOp = "receive-pack" /\ ReceivePack

\* the no-cache headers are sent
NoCacheHeaders(ww) ==
    /\ HeaderValue(ww, "Expires") = "Fri, 01 Jan 1980 00:00:00 GMT"
    /\ HeaderValue(ww, "Pragma") = "no-cache"
    /\ HeaderValue(ww, "Cache-Control") = "no-cache, max-age=0, must-revalidate"

\* the packet line of the service announcement
ServiceLine(op) ==
    IF op = "upload-pack" THEN "001e# service=git-upload-pack\n"
    ELSE "001f# service=git-receive-pack\n"

\* the index in ww of the call that sent the status
SentAt(ww) == Min({i \in 1..Len(ww) : ww[i][1] \in {"WriteHeader", "Write"}})

\* C19: for GET P/info/refs with service=git-<op> and the operation allowed
\* the response has the no-cache headers, Content-Type
\* application/x-git-<op>-advertisement and status 200, all before the body,
\* and the body is the packet line "# service=git-<op>\n", the flush packet
\* and then the output of git <op> --stateless-rpc --advertise-refs; otherwise
\* update-server-info is run and the info/refs file is served as text/plain
\* with the no-cache headers.
C19_RefAdvertisement ==
    RefsServed =>
        IF AdvertisementAllowed
        THEN /\ NoCacheHeaders(w)
             /\ HeaderValue(w, "Content-Type")
                    = "application/x-git-" \o AdvertisedOp \o "-advertisement"
             /\ w[SentAt(w)] = <<"WriteHeader", 200>>
             /\ Calls(w, "WriteHeader") = << <<"WriteHeader", 200>> >>
             /\ \E out \in {AdvertisedRefs(AdvertisedOp), ""} :
                    /\ Calls(w, "Write") = << <<"Write", ServiceLine(AdvertisedOp)>>,
                                              <<"Write", "0000">>, <<"Write", out>> >>
                    /\ out = "" <=> logged # << >>
             /\ logged = << >>
                    => execs = << <<AdvertisedOp, "--stateless-rpc", "--advertise-refs", ".">> >>
        ELSE /\ NoCacheHeaders(w)
             /\ logged = << >> => execs = << <<"update-server-info">> >>
             /\ IF IsNotExist(Join(hr.Dir, hr.File))
                THEN Status(w) = 404
                ELSE /\ Status(w) = 200
                     /\ HeaderValue(w, "Content-Type") = "text/plain; charset=utf-8"
                     /\ Body(w) = FileContent(Join(hr.Dir, hr.File))

\* C19 happens: receive-pack is allowed and its refs were advertised
C19_Witness ==
    /\ RefsServed
    /\ req.Service = "git-receive-pack"
    /\ ReceivePack
    /\ Body(w) = "001f# service=git-receive-pack\n0000" \o AdvertisedRefs("receive-pack")

\* C19 happens too: the operation is not allowed and the info/refs file is served
C19_FallbackServed ==
    /\ RefsServed
    /\ req.Service = "git-upload-pack"
    /\ ~UploadPack
    /\ Status(w) = 200
    /\ execs = << <<"update-server-info">> >>

RpcOps == {"upload-pack", "receive-pack"}

\* the git command with these arguments was started with --stateless-rpc
Stateless(args) == \E k \in 1..Len(args) : args[k] = "--stateless-rpc"

\* C20: every git command started with --stateless-rpc has upload-pack or
\* receive-pack as its operation, and a request for info/refs whose service
\* parameter names neither (or is missing, or lacks the git- prefix) is denied
\* the advertisement: only update-server-info is run for it.
C20_ValidRpcOpsOnly ==
    /\ \A i \in 1..Len(execs) : Stateless(execs[i]) => execs[i][1] \in RpcOps
    /\ (RefsServed /\ AdvertisedOp = "")
           => /\ \A i \in 1..Len(execs) : execs[i] = <<"update-server-info">>
              /\ HeaderValue(w, "Content-Type") \in {"", "text/plain; charset=utf-8"}

\* C20 happens: both operations are allowed and the client names another one
C20_Witness ==
    /\ RefsServed
    /\ req.Service = "git-archive"
    /\ UploadPack /\ ReceivePack
    /\ execs = << <<"update-server-info">> >>

\* the error responses: one status and its whole body, and nothing else
ErrorResponses ==
    {<< <<"WriteHeader", 404>>, <<"Write", "Not Found">> >>,
     << <<"WriteHeader", 405>>, <<"Write", "Method Not Allowed">> >>,
     << <<"WriteHeader", 400>>, <<"Write", "Bad Request">> >>,
     << <<"WriteHeader", 403>>, <<"Write", "Forbidden">> >>}

\* requestHandler answered the request itself: no pattern matched, the method
\* is not the matched one's, or the repository directory is missing
RoutingError == pc = "done" /\ handler = ""

\* serviceRpc refused the request
AccessError == pc = "done" /\ handler = "serviceRpc" /\ Status(w) = 403

\* the response is one of the error responses and nothing came before it, no
\* git command was made or run, and no event was published
NoSideEffects ==
    /\ w \in ErrorResponses
    /\ execs = << >>
    /\ cmd = NoCmd
    /\ pipes = NoPipes
    /\ events = << >>

C21_FileNotFound ==
    /\ pc = "done"
    /\ handler = "getInfoRefs"
    /\ Status(w) = 404
    /\ execs = << <<"update-server-info">> >>
    /\ HeaderValue(w, "Pragma") = "no-cache"

\* C22: for every request whose path matched an endpoint pattern with captured
\* repository prefix P and for which a handler is called, the residual file
\* path F given to the handler satisfies P + "/" + F = request path, also when
\* P is empty and when P + "/" occurs more than once in the path.
C22_ResidualFilePath ==
    (Routed /\ handler # "") => svc.repo \o "/" \o hr.File = req.Path

\* C23: in the RpcReader variant of serviceRpc an event is published only once
\* cmd.Wait() of the request's subprocess has been called (a started subprocess
\* is reaped by then), and only for a request that passed the access check and
\* got a body reader.
C23_EventsFollowSubprocess ==
    (impl = "reader" /\ events # << >>)
        => /\ handler = "serviceRpc"
           /\ pc = "done"
           /\ cmd.waited
           /\ pipes.child \in {"reaped", "none"}
           /\ hasAccess(req, hr.Dir, hr.Rpc, TRUE)
           /\ ~requestReader(req).err

\* C23 happens: the subprocess of a push ran, was reaped, and the event of the
\* ref update was published
C23_Witness ==
    /\ impl = "reader"
    /\ hr.Rpc = "receive-pack"
    /\ cmd.started /\ cmd.waited
    /\ pipes.child = "reaped"
    /\ Len(events) = 1
    /\ events[1].Dir = hr.Dir

\* the Authenticator has dealt with the request
Authenticated == pc \notin {"idle", "auth"}

\* the server behind the Authenticator has not seen the request
ServerUntouched ==
    /\ pc = "done"
    /\ svc = NoSvc /\ hr = NoHr /\ handler = ""
    /\ execs = << >> /\ events = << >> /\ cmd = NoCmd

\* one status was sent, and the body after it
OneResponse(ww, code) ==
    /\ Status(ww) = code
    /\ Len(Calls(ww, "WriteHeader")) = 1
    /\ Len(Calls(ww, "Write")) = 1
    /\ ww[Len(ww)][1] = "Write"

\* C24: the handler wrapped by Authenticator is invoked for a request only if
\* the Authorization header was parsed without error and authf returned
\* (true, nil); in any other case the wrapped handler is not called and one
\* response is sent: 401 with the WWW-Authenticate Basic challenge on a parse
\* error, 500 when authf returns an error, 403 "Forbidden" when authf returns
\* false without error.
C24_AuthenticationGate ==
    Authenticated =>
        /\ auth.invoked <=> /\ auth.parsed.err = ""
                            /\ auth.authf = [called |-> TRUE, authenticated |-> TRUE,
                                             err |-> ""]
        /\ ~auth.invoked =>
              /\ ServerUntouched
              /\ IF auth.parsed.err # ""
                 THEN /\ OneResponse(w, 401)
                      /\ HeaderValue(w, "WWW-Authenticate") = "Basic realm=\"git server\""
                      /\ ~auth.authf.called
                 ELSE IF auth.authf.err # ""
                 THEN OneResponse(w, 500)
                 ELSE w = << <<"WriteHeader", 403>>, <<"Write", "Forbidden">> >>
        /\ auth.invoked => /\ auth.info.Username = auth.parsed.Name
                           /\ auth.info.Password = auth.parsed.Pass

\* C24 happens: authf says yes and fails, and the push is answered 500
C24_Witness ==
    /\ Authenticated
    /\ auth.header = TestHeader
    /\ auth.info = [Username |-> "admin", Password |-> "password", Repo |-> "r",
                    Push |-> TRUE, Fetch |-> FALSE]
    /\ auth.authf.authenticated /\ auth.authf.err # ""
    /\ ServerUntouched
    /\ Status(w) = 500

\* C24 happens too: the request is let through and the server runs the push
C24_Granted ==
    /\ auth.invoked
    /\ auth.info.Push
    /\ execs = << <<"receive-pack", "--stateless-rpc", "/srv/git/r">> >>

====
